---- MODULE Spec2Model ----
(***************************************************************************)
(* A model of the agentic-types crate: the A2A wire object model and its   *)
(* serde encoding rules.  The crate is a library of pure conversions, so   *)
(* the state machine is a bench: Init draws one operation and one input    *)
(* for it, and one action per operation applies the conversion.            *)
(*                                                                         *)
(* JSON text is abstracted to JSON values.  A string value stands for text *)
(* the decoder can lend out of the input buffer, which is what every       *)
(* &'a str field of the crate asks of serde_json.                          *)
(***************************************************************************)
EXTENDS Integers, Sequences, FiniteSets, TLC

VARIABLES pc, op, arg, res

vars == <<pc, op, arg, res>>

(* Result<T, E> *)
Ok(v) == [ok |-> TRUE, val |-> v]

Err(e) == [ok |-> FALSE, err |-> e]

NoRes == [ok |-> FALSE, err |-> "not run"]

(***************************************************************************)
(* Bounds of the bench.                                                    *)
(***************************************************************************)
\* codes probed on each side of every registered code
MaxDelta == 3

\* codes probed on each side of zero
MaxProbe == 4

\* characters appended to a wire token to make an unrecognized one
MaxPad == 2

\* optional fields present at once in a value handed to Serialize
MaxPresent == 2

\* entries of a flattened extension map in a value handed to Serialize
MaxExt == 2

\* entries a caller inserts into one map
MaxInserts == 3

(***************************************************************************)
(* errors.rs: the error registry.                                          *)
(***************************************************************************)
JsonRpcErrorKinds ==
    { "ParseError", "InvalidRequest", "MethodNotFound", "InvalidParams",
      "InternalError", "TaskNotFoundError", "TaskNotCancelableError",
      "PushNotificationNotSupportedError", "UnsupportedOperationError",
      "ContentTypeNotSupportedError", "InvalidAgentResponseError",
      "AuthenticatedExtendedCardNotConfiguredError",
      "UnknownErrorEncountered" }

error_code_dup(k) ==
    CASE k = "ParseError" -> -32700
      [] k = "InvalidRequest" -> -32600
      [] k = "MethodNotFound" -> -32601
      [] k = "InvalidParams" -> -32602
      [] k = "InternalError" -> -32603
      [] k = "TaskNotFoundError" -> -32001
      [] k = "TaskNotCancelableError" -> -32002
      [] k = "PushNotificationNotSupportedError" -> -32003
      [] k = "UnsupportedOperationError" -> -32004
      [] k = "ContentTypeNotSupportedError" -> -32005
      [] k = "InvalidAgentResponseError" -> -32005
      [] k = "AuthenticatedExtendedCardNotConfiguredError" -> -32007
      [] k = "UnknownErrorEncountered" -> -32000

error_code(k) ==
    CASE k = "ParseError" -> -32700
      [] k = "InvalidRequest" -> -32600
      [] k = "MethodNotFound" -> -32601
      [] k = "InvalidParams" -> -32602
      [] k = "InternalError" -> -32603
      [] k = "TaskNotFoundError" -> -32001
      [] k = "TaskNotCancelableError" -> -32002
      [] k = "PushNotificationNotSupportedError" -> -32003
      [] k = "UnsupportedOperationError" -> -32004
      [] k = "ContentTypeNotSupportedError" -> -32005
      [] k = "InvalidAgentResponseError" -> -32006
      [] k = "AuthenticatedExtendedCardNotConfiguredError" -> -32007
      [] k = "UnknownErrorEncountered" -> -32000

\* the match arms of From<i64>, in source order
FromArms ==
    << "ParseError", "InvalidRequest", "MethodNotFound", "InvalidParams",
       "InternalError", "TaskNotFoundError", "TaskNotCancelableError",
       "PushNotificationNotSupportedError", "UnsupportedOperationError",
       "ContentTypeNotSupportedError", "InvalidAgentResponseError",
       "AuthenticatedExtendedCardNotConfiguredError" >>

\* the first arm whose guard val == Self::K.error_code() holds, else the `_` arm
MatchArms(value, arms, fallback) ==
    LET hits == {i \in 1..Len(arms) : value = error_code(arms[i])}
    IN  IF hits = {} THEN fallback
        ELSE arms[CHOOSE i \in hits : \A j \in hits : i <= j]

\* a From<i64> that lost its last two guarded arms
From_i64_short(value) ==
    MatchArms(value, SubSeq(FromArms, 1, Len(FromArms) - 2), "UnknownErrorEncountered")

\* a From<i64> whose `_` arm answers InternalError
From_i64_internal(value) == MatchArms(value, FromArms, "InternalError")

From_i64(value) == MatchArms(value, FromArms, "UnknownErrorEncountered")

foo(value) == From_i64(value)

RegisteredCodes == {error_code(k) : k \in JsonRpcErrorKinds}

CodeInputs ==
    {c + d : c \in RegisteredCodes, d \in (-MaxDelta)..MaxDelta}
        \cup ((-MaxProbe)..MaxProbe)

(***************************************************************************)
(* serde_derive's rename rules, as the rename_all attributes of the crate  *)
(* invoke them.  Identifiers are strings; Ch takes one character.          *)
(***************************************************************************)
UpperCaseLetters == "ABCDEFGHIJKLMNOPQRSTUVWXYZ"

LowerCaseLetters == "abcdefghijklmnopqrstuvwxyz"

Ch(s, i) == SubSeq(s, i, i)

is_uppercase(c) == \E i \in 1..Len(UpperCaseLetters) : Ch(UpperCaseLetters, i) = c

is_lowercase(c) == \E i \in 1..Len(LowerCaseLetters) : Ch(LowerCaseLetters, i) = c

to_ascii_lowercase(c) ==
    IF is_uppercase(c)
    THEN Ch(LowerCaseLetters, CHOOSE i \in 1..Len(UpperCaseLetters) : Ch(UpperCaseLetters, i) = c)
    ELSE c

to_ascii_uppercase(c) ==
    IF is_lowercase(c)
    THEN Ch(UpperCaseLetters, CHOOSE i \in 1..Len(LowerCaseLetters) : Ch(LowerCaseLetters, i) = c)
    ELSE c

\* SnakeCase on a variant: '_' before every capital but the first, all lowered
RECURSIVE SnakeVariant(_, _)
SnakeVariant(variant, i) ==
    IF i > Len(variant) THEN ""
    ELSE (IF i > 1 /\ is_uppercase(Ch(variant, i)) THEN "_" ELSE "")
            \o to_ascii_lowercase(Ch(variant, i))
            \o SnakeVariant(variant, i + 1)

RECURSIVE Replace(_, _, _)
Replace(s, from, to) ==
    IF s = "" THEN ""
    ELSE (IF Ch(s, 1) = from THEN to ELSE Ch(s, 1))
            \o Replace(SubSeq(s, 2, Len(s)), from, to)

\* PascalCase on a field: drop each '_' and capitalise the character after it
RECURSIVE PascalField(_, _, _)
PascalField(field, i, capitalize) ==
    IF i > Len(field) THEN ""
    ELSE IF Ch(field, i) = "_" THEN PascalField(field, i + 1, TRUE)
    ELSE IF capitalize
         THEN to_ascii_uppercase(Ch(field, i)) \o PascalField(field, i + 1, FALSE)
         ELSE Ch(field, i) \o PascalField(field, i + 1, FALSE)

LowerFirst(s) == to_ascii_lowercase(Ch(s, 1)) \o SubSeq(s, 2, Len(s))

apply_to_variant(rule, variant) ==
    IF rule = "camelCase" THEN LowerFirst(variant)
    ELSE IF rule = "kebab-case" THEN Replace(SnakeVariant(variant, 1), "_", "-")
    ELSE variant

apply_to_field(rule, field) ==
    IF rule = "camelCase" THEN LowerFirst(PascalField(field, 1, TRUE))
    ELSE field

(***************************************************************************)
(* JSON values, as serde_json reads and writes them.  An object is the     *)
(* sequence of its <<key, value>> members in text order.                   *)
(***************************************************************************)
JNull == [t |-> "null"]

JBool(b) == [t |-> "bool", b |-> b]

\* an integer of any width, by sign and decimal digits: serde_json reads the
\* digits of the text, and an i64 past the 32-bit range has no other form here
RECURSIVE Digits(_)
Digits(n) == IF n < 10 THEN <<n>> ELSE Append(Digits(n \div 10), n % 10)

Num(n) == [neg |-> n < 0, d |-> Digits(IF n < 0 THEN -n ELSE n)]

JNum(n) == [t |-> "num", n |-> n]

JStr(s) == [t |-> "str", s |-> s]

JArr(a) == [t |-> "arr", a |-> a]

JObj(m) == [t |-> "obj", m |-> m]

Keys(m) == {m[i][1] : i \in DOMAIN m}

Positions(m, k) == {i \in DOMAIN m : m[i][1] = k}

Member(m, k) == m[CHOOSE i \in Positions(m, k) : TRUE][2]

\* a value of an enum with data: the variant's name and what it holds
In(variant, val) == <<variant, val>>

VariantName(x) == x[1]

Held(x) == x[2]

(* Option<T> *)
None == [some |-> FALSE]

Some(v) == [some |-> TRUE, v |-> v]

(***************************************************************************)
(* Rust types of the crate's fields.                                       *)
(***************************************************************************)
\* &'a str, String, Cow<'a, str> and JsonStr<'a>
TStr == [k |-> "str"]

TBool == [k |-> "bool"]

\* i16, i32, i64
TInt(bits) == [k |-> "int", bits |-> bits]

TOpt(T) == [k |-> "opt", of |-> T]

TVec(T) == [k |-> "vec", of |-> T]

\* BTreeMap<String, T> and BTreeMap<&str, T>
TMap(T) == [k |-> "map", of |-> T]

\* TransportProtocol, which derives neither Serialize nor Deserialize
TTransport == [k |-> "transport"]

\* a struct or enum of the crate; T is its type parameter, if it has one
TNamed(name) == [k |-> "named", name |-> name, T |-> TBool]

TGeneric(name, T) == [k |-> "named", name |-> name, T |-> T]

(***************************************************************************)
(* Fields and containers with their serde attributes.                      *)
(***************************************************************************)
Fld(rust, ty) ==
    [rust |-> rust, ty |-> ty, wire |-> rust, rename |-> "", skip |-> FALSE,
     dflt |-> FALSE, flat |-> FALSE, with |-> ""]

\* #[serde(skip_serializing_if = "Option::is_none")]
Skip(f) == [f EXCEPT !.skip = TRUE]

\* #[serde(default)]
Dflt(f) == [f EXCEPT !.dflt = TRUE]

\* #[serde(flatten)]
Flat(f) == [f EXCEPT !.flat = TRUE]

\* #[serde(rename = "...")]
Renamed(f, name) == [f EXCEPT !.rename = name]

\* #[serde(serialize_with = "serialize_<w>", deserialize_with = "deserialize_<w>")]
With(f, w) == [f EXCEPT !.with = w]

WireFields(rule, fields) ==
    [i \in DOMAIN fields |->
        [fields[i] EXCEPT !.wire = IF fields[i].rename # "" THEN fields[i].rename
                                   ELSE apply_to_field(rule, fields[i].rust)]]

\* a struct under #[serde(rename_all = rule)]
Struct(rule, fields) == [kind |-> "struct", fields |-> WireFields(rule, fields)]

\* variants of an enum
Unit(rust) == [rust |-> rust, wire |-> rust, rename |-> "", shape |-> "unit"]

Newtype(rust, ty) ==
    [rust |-> rust, wire |-> rust, rename |-> "", shape |-> "newtype", ty |-> ty]

StructVariant(rust, rule, fields) ==
    [rust |-> rust, wire |-> rust, rename |-> "", shape |-> "struct",
     fields |-> WireFields(rule, fields)]

WireVariants(rule, variants) ==
    [i \in DOMAIN variants |->
        [variants[i] EXCEPT !.wire = IF variants[i].rename # "" THEN variants[i].rename
                                     ELSE apply_to_variant(rule, variants[i].rust)]]

\* an enum of unit variants, written as a string
Enum(rule, variants) == [kind |-> "enum", variants |-> WireVariants(rule, variants)]

\* #[serde(tag = tag, rename_all = rule)]
Tagged(tag, rule, variants) ==
    [kind |-> "tagged", tag |-> tag, variants |-> WireVariants(rule, variants)]

\* #[serde(untagged)]
Untagged(variants) == [kind |-> "untagged", variants |-> variants]

(***************************************************************************)
(* The types of the crate, attribute by attribute.                         *)
(***************************************************************************)
\* protocol_data/task_state.rs
TaskState ==
    Enum("kebab-case",
         << Unit("Submitted"), Unit("Working"), Unit("InputRequired"),
            Unit("Completed"), Unit("Canceled"), Unit("Failed"), Unit("Rejected"),
            Unit("AuthRequired"), Unit("Unknown") >>)

\* protocol_data/task_status.rs
TaskStatus ==
    Struct("none",
           << Fld("state", TNamed("TaskState")),
              Skip(Fld("message", TOpt(TNamed("Message")))),
              Skip(Fld("timestamp", TOpt(TStr))) >>)

\* protocol_data/message.rs
Message ==
    Struct("camelCase",
           << Fld("role", TNamed("MessageRole")),
              Fld("parts", TVec(TNamed("Part"))),
              Skip(Fld("metadata", TOpt(TMap(TStr)))),
              Skip(Fld("extensions", TOpt(TVec(TStr)))),
              Skip(Fld("reference_task_ids", TOpt(TVec(TStr)))),
              Fld("message_id", TStr),
              Skip(Fld("task_id", TOpt(TStr))),
              Skip(Fld("context_id", TOpt(TStr))),
              Fld("kind", TStr) >>)

MessageRole ==
    Enum("none", << Renamed(Unit("User"), "user"), Renamed(Unit("Agent"), "agent") >>)

Part ==
    Tagged("kind", "none",
           << Renamed(Newtype("Text", TNamed("TextPart")), "text"),
              Renamed(Newtype("File", TNamed("FilePart")), "file"),
              Renamed(Newtype("Data", TNamed("DataPart")), "data") >>)

PartBase == Struct("none", << Skip(Fld("metadata", TOpt(TMap(TStr)))) >>)

TextPart ==
    Struct("none", << Flat(Fld("base", TNamed("PartBase"))), Fld("text", TStr) >>)

FilePart ==
    Struct("none",
           << Flat(Fld("base", TNamed("PartBase"))), Fld("file", TNamed("FileWith")) >>)

DataPart ==
    Struct("none",
           << Flat(Fld("base", TNamed("PartBase"))), Fld("data", TMap(TStr)) >>)

\* FileWith with the Uri variant declared first
FileWith_uri_first ==
    Untagged(<< Newtype("Uri", TNamed("FileWithUri")),
                Newtype("Bytes", TNamed("FileWithBytes")) >>)

FileWith ==
    Untagged(<< Newtype("Bytes", TNamed("FileWithBytes")),
                Newtype("Uri", TNamed("FileWithUri")) >>)

FileWithBytes ==
    Struct("none", << Flat(Fld("base", TNamed("FileBase"))), Fld("bytes", TStr) >>)

FileWithUri ==
    Struct("none", << Flat(Fld("base", TNamed("FileBase"))), Fld("uri", TStr) >>)

FileBase ==
    Struct("none",
           << Skip(Fld("name", TOpt(TStr))), Skip(Fld("mime_type", TOpt(TStr))) >>)

\* protocol_data/push_notification.rs
TaskPushNotificationConfig ==
    Struct("none",
           << Fld("task_id", TStr),
              Fld("push_notification_config", TNamed("PushNotificationConfig")) >>)

PushNotificationConfig ==
    Struct("none",
           << Skip(Fld("id", TOpt(TStr))),
              Fld("url", TStr),
              Skip(Fld("token", TOpt(TStr))),
              Skip(Fld("authentication",
                       TOpt(TNamed("PushNotificationAuthenticationInfo")))) >>)

PushNotificationAuthenticationInfo ==
    Struct("none",
           << Fld("schemes", TVec(TStr)), Skip(Fld("credentials", TOpt(TStr))) >>)

\* agent_card/security_scheme.rs
SecurityScheme ==
    Tagged("type", "camelCase",
           << StructVariant("ApiKey", "camelCase",
                  << Fld("name", TStr),
                     Renamed(Fld("location", TStr), "in"),
                     Skip(Dflt(Fld("description", TOpt(TStr)))),
                     Flat(Fld("extensions", TMap(TStr))) >>),
              StructVariant("Http", "camelCase",
                  << Fld("scheme", TStr),
                     Skip(Dflt(Fld("bearer_format", TOpt(TStr)))),
                     Skip(Dflt(Fld("description", TOpt(TStr)))),
                     Flat(Fld("extensions", TMap(TStr))) >>),
              StructVariant("MutualTLS", "camelCase",
                  << Skip(Dflt(Fld("description", TOpt(TStr)))),
                     Flat(Fld("extensions", TMap(TStr))) >>),
              StructVariant("OAuth2", "camelCase",
                  << Fld("flows", TNamed("OAuthFlows")),
                     Skip(Dflt(Fld("oauth2_metadata_url", TOpt(TStr)))),
                     Skip(Dflt(Fld("description", TOpt(TStr)))),
                     Flat(Fld("extensions", TMap(TStr))) >>),
              StructVariant("OpenIdConnect", "camelCase",
                  << Fld("open_id_connect_url", TStr),
                     Skip(Dflt(Fld("description", TOpt(TStr)))),
                     Flat(Fld("extensions", TMap(TStr))) >> ) >>)

OAuthFlows ==
    Struct("camelCase",
           << Skip(Dflt(Fld("implicit", TOpt(TNamed("OAuthFlow"))))),
              Skip(Dflt(Fld("password", TOpt(TNamed("OAuthFlow"))))),
              Skip(Dflt(Fld("client_credentials", TOpt(TNamed("OAuthFlow"))))),
              Skip(Dflt(Fld("authorization_code", TOpt(TNamed("OAuthFlow"))))),
              Skip(Dflt(Fld("device_code", TOpt(TNamed("OAuthFlow"))))) >>)

OAuthFlow ==
    Struct("camelCase",
           << Skip(Dflt(Fld("authorization_url", TOpt(TStr)))),
              Skip(Dflt(Fld("token_url", TOpt(TStr)))),
              Skip(Dflt(Fld("refresh_url", TOpt(TStr)))),
              Skip(Dflt(Fld("scopes", TOpt(TMap(TStr))))) >>)

\* agent_card/interface.rs
AgentInterface ==
    Struct("none",
           << Fld("url", TStr), With(Fld("transport", TTransport), "transport") >>)

\* agent_card/skill.rs
AgentSkill ==
    Struct("camelCase",
           << Fld("id", TStr),
              Fld("name", TStr),
              Fld("description", TStr),
              Fld("tags", TVec(TStr)),
              Skip(Fld("examples", TOpt(TVec(TStr)))),
              Skip(Fld("input_modes", TOpt(TVec(TStr)))),
              Skip(Fld("output_modes", TOpt(TVec(TStr)))),
              Skip(Fld("security", TOpt(TVec(TMap(TVec(TStr)))))) >>)

\* agent_card/signature.rs
AgentCardSignature ==
    Struct("none",
           << Fld("protected", TStr),
              Fld("signature", TStr),
              Skip(Fld("header", TOpt(TMap(TStr)))) >>)

\* agent_card/card.rs
AgentCard ==
    Struct("camelCase",
           << Fld("protocol_version", TStr),
              Fld("name", TStr),
              Fld("description", TStr),
              Fld("url", TStr),
              With(Skip(Fld("preferred_transport", TOpt(TTransport))),
                   "transport_optional"),
              Skip(Fld("additional_interfaces", TOpt(TVec(TNamed("AgentInterface"))))),
              Skip(Fld("icon_url", TOpt(TStr))),
              Skip(Fld("provider", TOpt(TNamed("AgentProvider")))),
              Fld("version", TStr),
              Skip(Fld("documentation_url", TOpt(TStr))),
              Fld("capabilities", TNamed("AgentCapabilities")),
              Skip(Fld("security_schemes", TOpt(TMap(TNamed("SecurityScheme"))))),
              Skip(Fld("security", TOpt(TVec(TMap(TVec(TStr)))))),
              Fld("default_input_modes", TVec(TStr)),
              Fld("default_output_modes", TVec(TStr)),
              Fld("skills", TVec(TNamed("AgentSkill"))),
              Skip(Fld("supports_authenticated_extended_card", TOpt(TBool))),
              Skip(Fld("signatures", TOpt(TVec(TNamed("AgentCardSignature"))))) >>)

AgentProvider ==
    Struct("camelCase", << Fld("organization", TStr), Fld("url", TStr) >>)

AgentCapabilities ==
    Struct("camelCase",
           << Fld("streaming", TBool),
              Fld("push_notifications", TBool),
              Skip(Fld("state_transition_history", TOpt(TBool))),
              Skip(Fld("extensions", TOpt(TVec(TNamed("AgentExtension"))))) >>)

AgentExtension ==
    Struct("camelCase",
           << Fld("uri", TStr),
              Skip(Fld("description", TOpt(TStr))),
              Skip(Fld("required", TOpt(TBool))),
              Skip(Fld("params", TOpt(TMap(TStr)))) >>)

\* jsonrpc.rs
JsonRpcRequest ==
    Struct("none",
           << Fld("jsonrpc", TStr),
              Fld("method", TStr),
              Fld("params", TOpt(TStr)),
              Fld("id", TOpt(TNamed("JsonRpcId"))) >>)

JsonRpcId ==
    Untagged(<< Newtype("String", TStr), Newtype("Number", TInt(64)), Unit("Null") >>)

\* JsonRpcResponse with the payload under a key of its own
JsonRpcResponse_nested(T) ==
    Struct("none",
           << Fld("jsonrpc", TStr),
              Skip(Fld("id", TOpt(TNamed("JsonRpcId")))),
              Fld("payload", TGeneric("JsonRpcPayload", T)) >>)

JsonRpcResponse(T) ==
    Struct("none",
           << Fld("jsonrpc", TStr),
              Skip(Fld("id", TOpt(TNamed("JsonRpcId")))),
              Flat(Fld("payload", TGeneric("JsonRpcPayload", T))) >>)

\* JsonRpcPayload with the Error variant declared first
JsonRpcPayload_error_first(T) ==
    Untagged(<< StructVariant("Error", "none", << Fld("error", TNamed("JsonRpcError")) >>),
                StructVariant("Success", "none", << Fld("result", T) >>) >>)

JsonRpcPayload(T) ==
    Untagged(<< StructVariant("Success", "none", << Fld("result", T) >>),
                StructVariant("Error", "none", << Fld("error", TNamed("JsonRpcError")) >>) >>)

\* the error record of jsonrpc.rs, not the enum of errors.rs
JsonRpcError ==
    Struct("none",
           << Fld("code", TInt(32)), Fld("message", TStr), Skip(Fld("data", TOpt(TStr))) >>)

JSONRPCError ==
    Struct("none",
           << Fld("code", TInt(64)), Fld("message", TStr), Skip(Fld("data", TOpt(TStr))) >>)

MessageSendParams ==
    Struct("none",
           << Fld("message", TNamed("Message")),
              Fld("configuration", TOpt(TNamed("MessageSendConfiguration"))),
              Fld("metadata", TOpt(TMap(TStr))) >>)

\* #[serde(rename = "camelCase")] names the struct; it is no rename_all
MessageSendConfiguration ==
    Struct("none",
           << Fld("accepted_output_modes", TOpt(TStr)),
              Fld("history_length", TOpt(TInt(16))),
              Fld("push_notification_config", TOpt(TNamed("PushNotificationConfig"))),
              Fld("blocking", TOpt(TBool)) >>)

TaskStatusUpdateEvent ==
    Struct("camelCase",
           << Fld("task_id", TStr),
              Fld("context_id", TStr),
              Fld("kind", TStr),
              Fld("status", TNamed("TaskStatus")),
              Fld("final", TBool),
              Skip(Fld("metadata", TOpt(TMap(TStr)))) >>)

TaskQueryParams ==
    Struct("camelCase", << Skip(Fld("history_length", TOpt(TInt(64)))) >>)

ListTasksParams ==
    Struct("camelCase",
           << Skip(Fld("context_id", TOpt(TStr))),
              Skip(Fld("status", TOpt(TNamed("TaskState")))),
              Skip(Fld("page_size", TOpt(TInt(64)))),
              Skip(Fld("page_token", TOpt(TStr))),
              Skip(Fld("history_length", TOpt(TInt(64)))),
              Skip(Fld("last_updated_after", TOpt(TInt(64)))),
              Skip(Fld("include_artifacts", TOpt(TBool))),
              Skip(Fld("metadata", TOpt(TMap(TStr)))) >>)

GetTaskPushNotificationConfigParams ==
    Struct("camelCase", << Skip(Fld("push_notification_config_id", TOpt(TStr))) >>)

DeleteTaskPushNotificationConfigParams ==
    Struct("camelCase", << Fld("push_notification_config_id", TStr) >>)

\* tasks: Vec<Task<'a>>, of which the bench builds and reads the empty list
ListTasksResult ==
    Struct("camelCase",
           << Fld("tasks", TVec(TNamed("Task"))),
              Fld("total_size", TInt(64)),
              Fld("page_size", TInt(64)),
              Fld("next_page_token", TStr) >>)

\* the definition of a named type
Def(ty) ==
    CASE ty.name = "TaskState" -> TaskState
      [] ty.name = "TaskStatus" -> TaskStatus
      [] ty.name = "Message" -> Message
      [] ty.name = "MessageRole" -> MessageRole
      [] ty.name = "Part" -> Part
      [] ty.name = "PartBase" -> PartBase
      [] ty.name = "TextPart" -> TextPart
      [] ty.name = "FilePart" -> FilePart
      [] ty.name = "DataPart" -> DataPart
      [] ty.name = "FileWith" -> FileWith
      [] ty.name = "FileWithBytes" -> FileWithBytes
      [] ty.name = "FileWithUri" -> FileWithUri
      [] ty.name = "FileBase" -> FileBase
      [] ty.name = "TaskPushNotificationConfig" -> TaskPushNotificationConfig
      [] ty.name = "PushNotificationConfig" -> PushNotificationConfig
      [] ty.name = "PushNotificationAuthenticationInfo" -> PushNotificationAuthenticationInfo
      [] ty.name = "SecurityScheme" -> SecurityScheme
      [] ty.name = "OAuthFlows" -> OAuthFlows
      [] ty.name = "OAuthFlow" -> OAuthFlow
      [] ty.name = "AgentInterface" -> AgentInterface
      [] ty.name = "AgentSkill" -> AgentSkill
      [] ty.name = "AgentCardSignature" -> AgentCardSignature
      [] ty.name = "AgentCard" -> AgentCard
      [] ty.name = "AgentProvider" -> AgentProvider
      [] ty.name = "AgentCapabilities" -> AgentCapabilities
      [] ty.name = "AgentExtension" -> AgentExtension
      [] ty.name = "JsonRpcRequest" -> JsonRpcRequest
      [] ty.name = "JsonRpcId" -> JsonRpcId
      [] ty.name = "JsonRpcResponse" -> JsonRpcResponse(ty.T)
      [] ty.name = "JsonRpcPayload" -> JsonRpcPayload(ty.T)
      [] ty.name = "JsonRpcError" -> JsonRpcError
      [] ty.name = "JSONRPCError" -> JSONRPCError
      [] ty.name = "MessageSendParams" -> MessageSendParams
      [] ty.name = "MessageSendConfiguration" -> MessageSendConfiguration
      [] ty.name = "TaskStatusUpdateEvent" -> TaskStatusUpdateEvent
      [] ty.name = "TaskQueryParams" -> TaskQueryParams
      [] ty.name = "ListTasksParams" -> ListTasksParams
      [] ty.name = "GetTaskPushNotificationConfigParams" ->
            GetTaskPushNotificationConfigParams
      [] ty.name = "DeleteTaskPushNotificationConfigParams" ->
            DeleteTaskPushNotificationConfigParams
      [] ty.name = "ListTasksResult" -> ListTasksResult

(***************************************************************************)
(* agent_card/transport.rs and the two optional helpers of card.rs.        *)
(***************************************************************************)
TransportProtocols == {"JsonRpc", "Grpc", "HttpJson"}

as_str(self) ==
    CASE self = "JsonRpc" -> "JSONRPC"
      [] self = "Grpc" -> "GRPC"
      [] self = "HttpJson" -> "HTTP+JSON"

\* a From<&str> whose `_` arm answers Grpc
From_str_grpc(value) ==
    IF value = as_str("Grpc") THEN "Grpc"
    ELSE IF value = as_str("HttpJson") THEN "HttpJson"
    ELSE IF value = as_str("JsonRpc") THEN "JsonRpc"
    ELSE "Grpc"

From_str(value) ==
    IF value = as_str("Grpc") THEN "Grpc"
    ELSE IF value = as_str("HttpJson") THEN "HttpJson"
    ELSE IF value = as_str("JsonRpc") THEN "JsonRpc"
    ELSE "JsonRpc"

serialize_transport(transport) == JStr(as_str(transport))

\* <&'de str>::deserialize(deserializer)?.into()
deserialize_transport(j) ==
    IF j.t = "str" THEN Ok(From_str(j.s)) ELSE Err("invalid type: expected a string")

serialize_transport_optional(transport) ==
    IF transport.some THEN JStr(as_str(transport.v)) ELSE JNull

\* Option::<&'de str>::deserialize(deserializer)?.map(|value| value.into())
deserialize_transport_optional(j) ==
    IF j.t = "null" THEN Ok(None)
    ELSE IF j.t = "str" THEN Ok(Some(From_str(j.s)))
    ELSE Err("invalid type: expected a string")

(***************************************************************************)
(* BTreeMap: a function from its keys, walked in ascending byte order.     *)
(***************************************************************************)
\* the characters of the bench's keys, in ASCII order
Ascii == "+-/0123456789:=ABCDEFGHIJKLMNOPQRSTUVWXYZ_abcdefghijklmnopqrstuvwxyz"

Ord(c) == CHOOSE i \in 1..Len(Ascii) : Ch(Ascii, i) = c

RECURSIVE StrLess(_, _)
StrLess(a, b) ==
    IF a = "" THEN b # ""
    ELSE IF b = "" THEN FALSE
    ELSE IF Ch(a, 1) = Ch(b, 1) THEN StrLess(SubSeq(a, 2, Len(a)), SubSeq(b, 2, Len(b)))
    ELSE Ord(Ch(a, 1)) < Ord(Ch(b, 1))

\* keys walked from the greatest down
RECURSIVE SortedKeys_descending(_)
SortedKeys_descending(S) ==
    IF S = {} THEN <<>>
    ELSE LET greatest == CHOOSE x \in S : \A y \in S \ {x} : StrLess(y, x)
         IN  <<greatest>> \o SortedKeys_descending(S \ {greatest})

RECURSIVE SortedKeys(_)
SortedKeys(S) ==
    IF S = {} THEN <<>>
    ELSE LET least == CHOOSE x \in S : \A y \in S \ {x} : StrLess(x, y)
         IN  <<least>> \o SortedKeys(S \ {least})

EmptyMap == [k \in {} |-> None]

\* BTreeMap::insert
insert(self, key, value) ==
    [k \in DOMAIN self \cup {key} |-> IF k = key THEN value ELSE self[k]]

\* a map filled by the inserts of a caller, in the caller's order
RECURSIVE Inserted(_)
Inserted(entries) ==
    IF entries = <<>> THEN EmptyMap
    ELSE LET last == entries[Len(entries)]
         IN  insert(Inserted(SubSeq(entries, 1, Len(entries) - 1)), last[1], last[2])

(***************************************************************************)
(* Deserialize, as serde_derive generates it from the attributes and       *)
(* serde_json drives it.                                                   *)
(***************************************************************************)
\* the digits of 2^(bits-1) - 1, the largest value of a signed integer type
IntMax(bits) ==
    CASE bits = 16 -> <<3, 2, 7, 6, 7>>
      [] bits = 32 -> <<2, 1, 4, 7, 4, 8, 3, 6, 4, 7>>
      [] bits = 64 -> <<9, 2, 2, 3, 3, 7, 2, 0, 3, 6, 8, 5, 4, 7, 7, 5, 8, 0, 7>>

\* a <= b, for digit sequences without leading zeros
MagLeq(a, b) ==
    \/ Len(a) < Len(b)
    \/ /\ Len(a) = Len(b)
       /\ \/ a = b
          \/ \E i \in DOMAIN a : a[i] < b[i] /\ \A k \in 1..(i - 1) : a[k] = b[k]

\* the number is one the integer type holds: -2^(bits-1) .. 2^(bits-1) - 1
IntFits(bits, n) ==
    LET max == IntMax(bits)
    IN  MagLeq(n.d, IF n.neg THEN [max EXCEPT ![Len(max)] = 8] ELSE max)

FirstErr(rs) == rs[CHOOSE i \in DOMAIN rs : ~rs[i].ok /\ \A j \in DOMAIN rs : ~rs[j].ok => i <= j]

RECURSIVE Deserialize(_, _)
RECURSIVE DeStruct(_, _)

\* a map visitor: insert every entry, a later duplicate replacing an earlier one
DeMap(T, m) ==
    LET last(k) == CHOOSE i \in Positions(m, k) : \A j \in Positions(m, k) : j <= i
        done(rs) == IF \E i \in DOMAIN m : ~rs[i].ok THEN FirstErr(rs)
                    ELSE Ok([k \in Keys(m) |-> rs[last(k)].val])
    IN  CHOOSE r \in {done(rs) : rs \in {[i \in DOMAIN m |-> Deserialize(T, m[i][2])]}} : TRUE

\* a field with deserialize_with goes through the named function
DeField(f, j) ==
    IF f.with = "transport" THEN deserialize_transport(j)
    ELSE IF f.with = "transport_optional" THEN deserialize_transport_optional(j)
    ELSE Deserialize(f.ty, j)

\* a missing key that gives a string field the empty string
missing_field_default(f) ==
    IF f.dflt THEN Ok(None)
    ELSE IF f.with = "" /\ f.ty.k = "opt" THEN Ok(None)
    ELSE IF f.ty.k = "str" THEN Ok("")
    ELSE Err("missing field")

\* a key that never came: #[serde(default)], else the implicit None of an
\* Option field without deserialize_with, else an error
missing_field(f) ==
    IF f.dflt THEN Ok(None)
    ELSE IF f.with = "" /\ f.ty.k = "opt" THEN Ok(None)
    ELSE Err("missing field")

\* a #[serde(flatten)] field reads the entries no named field took
DeFlat(ty, collect) ==
    IF ty.k = "map" THEN DeMap(ty.of, collect)
    ELSE IF Def(ty).kind = "struct" THEN DeStruct(Def(ty).fields, collect)
    ELSE Deserialize(ty, JObj(collect))

DeStruct(fields, m) ==
    LET known == {fields[i].wire : i \in {i \in DOMAIN fields : ~fields[i].flat}}
        collect == SelectSeq(m, LAMBDA e : e[1] \notin known)
        R(f) == IF f.flat THEN DeFlat(f.ty, collect)
                ELSE IF Cardinality(Positions(m, f.wire)) > 1 THEN Err("duplicate field")
                ELSE IF Positions(m, f.wire) = {} THEN missing_field(f)
                ELSE DeField(f, Member(m, f.wire))
        done(rs) ==
            IF \E i \in DOMAIN fields : ~rs[i].ok THEN FirstErr(rs)
            ELSE Ok([n \in {fields[i].rust : i \in DOMAIN fields} |->
                        rs[CHOOSE i \in DOMAIN fields : fields[i].rust = n].val])
    IN  \* the fields are read once each
        CHOOSE r \in {done(rs) : rs \in {[i \in DOMAIN fields |-> R(fields[i])]}} : TRUE

\* a unit-variant enum: the token must be a variant's wire name
DeEnum(d, j) ==
    IF j.t # "str" THEN Err("invalid type: expected a variant name")
    ELSE IF \E i \in DOMAIN d.variants : d.variants[i].wire = j.s
         THEN Ok(d.variants[CHOOSE i \in DOMAIN d.variants : d.variants[i].wire = j.s].rust)
         ELSE Err("unknown variant")

DeVariant(v, j) ==
    IF v.shape = "unit" THEN (IF j.t = "null" THEN Ok(<<>>) ELSE Err("invalid type"))
    ELSE IF v.shape = "newtype" THEN Deserialize(v.ty, j)
    ELSE IF j.t = "obj" THEN DeStruct(v.fields, j.m)
    ELSE Err("invalid type: expected a map")

\* an internally tagged enum that reads its first variant when the tag is
\* missing or names no variant
DeTagged_fallback(d, j) ==
    IF j.t # "obj" THEN Err("invalid type: expected a map")
    ELSE LET at == Positions(j.m, d.tag)
             rest == SelectSeq(j.m, LAMBDA e : e[1] # d.tag)
             hit == {i \in DOMAIN d.variants :
                        /\ at # {}
                        /\ Member(j.m, d.tag).t = "str"
                        /\ d.variants[i].wire = Member(j.m, d.tag).s}
             v == d.variants[IF hit = {} THEN 1 ELSE CHOOSE i \in hit : TRUE]
             r == DeVariant(v, JObj(rest))
         IN  IF r.ok THEN Ok(In(v.rust, r.val)) ELSE r

\* an internally tagged enum: take the tag out, then read the variant from the rest
DeTagged(d, j) ==
    IF j.t # "obj" THEN Err("invalid type: expected a map")
    ELSE LET at == Positions(j.m, d.tag)
             rest == SelectSeq(j.m, LAMBDA e : e[1] # d.tag)
         IN  IF at = {} THEN Err("missing field")
             ELSE IF Cardinality(at) > 1 THEN Err("duplicate field")
             ELSE LET tag == Member(j.m, d.tag)
                      hit == {i \in DOMAIN d.variants :
                                 tag.t = "str" /\ d.variants[i].wire = tag.s}
                  IN  IF tag.t # "str" THEN Err("invalid type: expected a variant name")
                      ELSE IF hit = {} THEN Err("unknown variant")
                      ELSE LET v == d.variants[CHOOSE i \in hit : TRUE]
                               done(r) == IF r.ok THEN Ok(In(v.rust, r.val)) ELSE r
                           IN  CHOOSE x \in {done(r) : r \in {DeVariant(v, JObj(rest))}} : TRUE

\* an untagged enum: the first variant, in declaration order, that reads the value
DeUntagged(d, j) ==
    LET done(rs) ==
            LET hit == {i \in DOMAIN d.variants : rs[i].ok}
            IN  IF hit = {} THEN Err("data did not match any variant")
                ELSE LET i == CHOOSE i \in hit : \A k \in hit : i <= k
                     IN  Ok(In(d.variants[i].rust, rs[i].val))
    IN  CHOOSE r \in {done(rs) :
                         rs \in {[i \in DOMAIN d.variants |-> DeVariant(d.variants[i], j)]}} :
            TRUE

Deserialize(ty, j) ==
    CASE ty.k = "str" -> IF j.t = "str" THEN Ok(j.s) ELSE Err("invalid type: expected a string")
      [] ty.k = "bool" -> IF j.t = "bool" THEN Ok(j.b) ELSE Err("invalid type: expected a bool")
      [] ty.k = "int" ->
            IF j.t # "num" THEN Err("invalid type: expected an integer")
            ELSE IF IntFits(ty.bits, j.n) THEN Ok(j.n)
            ELSE Err("invalid value: out of range")
      [] ty.k = "opt" ->
            IF j.t = "null" THEN Ok(None)
            ELSE CHOOSE x \in {IF r.ok THEN Ok(Some(r.val)) ELSE r :
                                  r \in {Deserialize(ty.of, j)}} : TRUE
      [] ty.k = "vec" ->
            IF j.t # "arr" THEN Err("invalid type: expected a sequence")
            ELSE CHOOSE r \in {IF \E i \in DOMAIN rs : ~rs[i].ok THEN FirstErr(rs)
                                ELSE Ok([i \in DOMAIN rs |-> rs[i].val]) :
                                  rs \in {[i \in DOMAIN j.a |-> Deserialize(ty.of, j.a[i])]}} :
                    TRUE
      [] ty.k = "map" ->
            IF j.t = "obj" THEN DeMap(ty.of, j.m) ELSE Err("invalid type: expected a map")
      [] ty.k = "named" ->
            LET d == Def(ty)
            IN  CASE d.kind = "struct" ->
                        IF j.t = "obj" THEN DeStruct(d.fields, j.m)
                        ELSE Err("invalid type: expected a map")
                  [] d.kind = "enum" -> DeEnum(d, j)
                  [] d.kind = "tagged" -> DeTagged(d, j)
                  [] d.kind = "untagged" -> DeUntagged(d, j)

(***************************************************************************)
(* Serialize, as serde_derive generates it.                                *)
(***************************************************************************)
RECURSIVE Serialize(_, _)
RECURSIVE SerFields(_, _)

VariantOf(d, name) == d.variants[CHOOSE i \in DOMAIN d.variants : d.variants[i].rust = name]

SerField(f, x) ==
    IF f.with = "transport" THEN serialize_transport(x)
    ELSE IF f.with = "transport_optional" THEN serialize_transport_optional(x)
    ELSE Serialize(f.ty, x)

\* the members a struct writes, field by field in declaration order
SerFields(fields, self) ==
    IF fields = <<>> THEN <<>>
    ELSE LET f == Head(fields)
             x == self[f.rust]
         IN  (IF f.flat THEN Serialize(f.ty, x).m
              ELSE IF f.skip /\ ~x.some THEN <<>>
              ELSE << <<f.wire, SerField(f, x)>> >>)
                \o SerFields(Tail(fields), self)

SerVariant(v, x) ==
    IF v.shape = "unit" THEN JNull
    ELSE IF v.shape = "newtype" THEN Serialize(v.ty, x)
    ELSE JObj(SerFields(v.fields, x))

Serialize(ty, x) ==
    CASE ty.k = "str" -> JStr(x)
      [] ty.k = "bool" -> JBool(x)
      [] ty.k = "int" -> JNum(x)
      [] ty.k = "opt" -> IF x.some THEN Serialize(ty.of, x.v) ELSE JNull
      [] ty.k = "vec" -> JArr([i \in DOMAIN x |-> Serialize(ty.of, x[i])])
      [] ty.k = "map" ->
            LET ks == SortedKeys(DOMAIN x)
            IN  JObj([i \in DOMAIN ks |-> <<ks[i], Serialize(ty.of, x[ks[i]])>>])
      [] ty.k = "named" ->
            LET d == Def(ty)
            IN  CASE d.kind = "struct" -> JObj(SerFields(d.fields, x))
                  [] d.kind = "enum" -> JStr(VariantOf(d, x).wire)
                  [] d.kind = "tagged" ->
                        JObj(<< <<d.tag, JStr(VariantOf(d, VariantName(x)).wire)>> >>
                                \o SerVariant(VariantOf(d, VariantName(x)), Held(x)).m)
                  [] d.kind = "untagged" ->
                        SerVariant(VariantOf(d, VariantName(x)), Held(x))

(***************************************************************************)
(* Values a caller can construct, for Serialize.                           *)
(***************************************************************************)
RECURSIVE Minimal(_)
Minimal(ty) ==
    CASE ty.k = "str" -> "s"
      [] ty.k = "bool" -> FALSE
      [] ty.k = "int" -> Num(0)
      [] ty.k = "opt" -> None
      [] ty.k = "vec" -> <<>>
      [] ty.k = "map" -> EmptyMap
      [] ty.k = "transport" -> "JsonRpc"
      [] ty.k = "named" ->
            LET d == Def(ty)
                rec(fields) == [n \in {fields[i].rust : i \in DOMAIN fields} |->
                                  Minimal(fields[CHOOSE i \in DOMAIN fields :
                                                    fields[i].rust = n].ty)]
                v == d.variants[1]
            IN  CASE d.kind = "struct" -> rec(d.fields)
                  [] d.kind = "enum" -> v.rust
                  [] d.kind \in {"tagged", "untagged"} ->
                        In(v.rust, IF v.shape = "struct" THEN rec(v.fields)
                                   ELSE IF v.shape = "newtype" THEN Minimal(v.ty)
                                   ELSE <<>>)

\* #[derive(Default)]: the variant under #[default], and the default of every field
RECURSIVE Default(_)
Default(ty) ==
    CASE ty.k = "str" -> ""
      [] ty.k = "bool" -> FALSE
      [] ty.k = "int" -> Num(0)
      [] ty.k = "opt" -> None
      [] ty.k = "vec" -> <<>>
      [] ty.k = "map" -> EmptyMap
      [] ty.k = "named" /\ ty.name = "MessageRole" -> "User"
      [] ty.k = "named" /\ ty.name = "TaskState" -> "Unknown"
      [] ty.k = "named" /\ ty.name \notin {"MessageRole", "TaskState"} ->
            LET fields == Def(ty).fields
            IN  [n \in {fields[i].rust : i \in DOMAIN fields} |->
                    Default(fields[CHOOSE i \in DOMAIN fields : fields[i].rust = n].ty)]

\* Message::new()
Message_new == [Default(TNamed("Message")) EXCEPT !.kind = "message"]

\* TaskStatusUpdateEvent::new()
TaskStatusUpdateEvent_new ==
    [Default(TNamed("TaskStatusUpdateEvent")) EXCEPT !.kind = "status-update"]

Constructors ==
    {"Message::new", "Message::default",
     "TaskStatusUpdateEvent::new", "TaskStatusUpdateEvent::default"}

\* extension maps of up to MaxExt entries; the key is any String the caller picks
ExtKeys == {"x-a", "x-b", "x-c", "x-d", "type", "scheme"}

ExtMaps ==
    {[k \in K |-> "v"] : K \in {K \in SUBSET ExtKeys : Cardinality(K) <= MaxExt}}

\* next_page_token: "" on the last page
PageTokens == {"", "p2"}

RECURSIVE Values(_)
RECURSIVE FieldCombos(_, _)

\* the values tried for one field, each with the number of optional fields it fills
Choices(f) ==
    CASE f.ty.k = "opt" ->
            {<<None, 0>>}
                \cup {<<Some(v), 1>> :
                        v \in IF f.ty.of.k = "transport" THEN TransportProtocols
                              ELSE IF f.ty.of.k = "named" /\ Def(f.ty.of).kind # "struct"
                                   THEN Values(f.ty.of)
                              ELSE {Minimal(f.ty.of)}}
      [] f.ty.k = "transport" -> {<<v, 0>> : v \in TransportProtocols}
      [] f.ty.k = "map" /\ f.flat -> {<<v, 0>> : v \in ExtMaps}
      [] f.ty.k = "named" -> {<<v, 0>> : v \in Values(f.ty)}
      [] f.ty.k = "str" /\ f.rust = "next_page_token" -> {<<v, 0>> : v \in PageTokens}
      [] OTHER -> {<<Minimal(f.ty), 0>>}

\* sequences of field values, one per field, filling at most budget optional fields
FieldCombos(fields, budget) ==
    IF fields = <<>> THEN {<<>>}
    ELSE UNION {{<<c[1]>> \o rest : rest \in FieldCombos(Tail(fields), budget - c[2])} :
                   c \in {c \in Choices(Head(fields)) : c[2] <= budget}}

Records(fields) ==
    {[n \in {fields[i].rust : i \in DOMAIN fields} |->
         vals[CHOOSE i \in DOMAIN fields : fields[i].rust = n]] :
       vals \in FieldCombos(fields, MaxPresent)}

Values(ty) ==
    IF ty.k # "named" THEN {Minimal(ty)}
    ELSE LET d == Def(ty)
             of(v) == IF v.shape = "struct" THEN Records(v.fields)
                      ELSE IF v.shape = "newtype" THEN Values(v.ty)
                      ELSE {<<>>}
         IN  CASE d.kind = "struct" -> Records(d.fields)
               [] d.kind = "enum" -> {d.variants[i].rust : i \in DOMAIN d.variants}
               [] d.kind \in {"tagged", "untagged"} ->
                     UNION {{In(d.variants[i].rust, x) : x \in of(d.variants[i])} :
                              i \in DOMAIN d.variants}

(***************************************************************************)
(* JSON texts handed to Deserialize.                                       *)
(***************************************************************************)
Absent == [t |-> "absent"]

\* the objects that give each key, in the order listed, one of its values or leave it out
RECURSIVE ObjFamily(_)
ObjFamily(choices) ==
    IF choices = <<>> THEN {<<>>}
    ELSE LET key == Head(choices)[1]
             rest == ObjFamily(Tail(choices))
         IN  UNION {{IF v = Absent THEN r ELSE << <<key, v>> >> \o r : r \in rest} :
                       v \in Head(choices)[2]}

RECURSIVE Pad(_, _)
Pad(token, n) == IF n = 0 THEN token ELSE Pad(token, n - 1) \o "X"

WireNames(d) == {d.variants[i].wire : i \in DOMAIN d.variants}

Padded(tokens) == {Pad(tok, n) : tok \in tokens, n \in 0..MaxPad}

NotStrings == {JNull, JNum(Num(1)), JBool(TRUE)}

TaskStateTokens ==
    Padded(WireNames(TaskState)
              \cup {"frobnicated", "Completed", "input_required", "inputRequired", ""})

TaskStateTexts == {JStr(tok) : tok \in TaskStateTokens} \cup NotStrings

TaskStatusTexts ==
    {JObj(m) : m \in ObjFamily(<< <<"state", TaskStateTexts \cup {Absent}>>,
                                  <<"timestamp",
                                    {Absent, JNull, JStr("2023-10-27T10:00:00Z")}>> >>)}

ListTasksParamsTexts ==
    {JObj(m) : m \in ObjFamily(<< <<"status", TaskStateTexts \cup {Absent}>>,
                                  <<"pageSize", {Absent, JNum(Num(50))}>> >>)}

TransportTokens ==
    Padded({as_str(p) : p \in TransportProtocols}
              \cup {"SOAP", "jsonrpc", "grpc", "http+json", "HTTP", ""})

TransportTexts == {JStr(tok) : tok \in TransportTokens} \cup NotStrings

AgentInterfaceTexts ==
    {JObj(m) : m \in ObjFamily(<< <<"url", {JStr("https://a")}>>,
                                  <<"transport", TransportTexts \cup {Absent}>> >>)}

AgentCardTexts ==
    {JObj(m) :
       m \in ObjFamily(
           << <<"protocolVersion", {JStr("0.3.0")}>>,
              <<"name", {JStr("Recipe Agent")}>>,
              <<"description", {JStr("d")}>>,
              <<"url", {JStr("https://a")}>>,
              <<"preferredTransport", TransportTexts \cup {Absent}>>,
              <<"version", {JStr("1.0.0")}>>,
              <<"capabilities",
                {JObj(<< <<"streaming", JBool(TRUE)>>,
                         <<"pushNotifications", JBool(FALSE)>> >>)}>>,
              <<"defaultInputModes", {JArr(<<>>)}>>,
              <<"defaultOutputModes", {JArr(<< JStr("text/plain") >>)}>>,
              <<"skills", {JArr(<<>>)}>> >>)}

SecuritySchemeTexts ==
    {JObj(m) :
       m \in ObjFamily(
           << <<"type",
                {Absent, JNum(Num(1))}
                    \cup {JStr(tok) :
                            tok \in WireNames(SecurityScheme)
                                      \cup {"apiKey", "http", "mutualTLS", "oauth2",
                                            "openIdConnect", "bogus", "ApiKey"}}>>,
              <<"name", {Absent, JStr("X-Key")}>>,
              <<"in", {Absent, JStr("header")}>>,
              <<"scheme", {Absent, JStr("bearer")}>>,
              <<"flows", {Absent, JObj(<<>>)}>>,
              <<"openIdConnectUrl", {Absent, JStr("https://o")}>>,
              <<"description", {Absent, JNull, JStr("d"), JNum(Num(1))}>>,
              <<"x-a", {Absent, JStr("v"), JNum(Num(1))}>> >>)}

\* SecurityScheme objects with extension keys in an order of the sender's
SecuritySchemeExtensionTexts ==
    {JObj(m) :
       m \in ObjFamily(
           << <<"x-b", {Absent, JStr("2")}>>,
              <<"type", {JStr("mutualTLS"), JStr("http")}>>,
              <<"x-c", {Absent, JStr("3")}>>,
              <<"scheme", {JStr("bearer")}>>,
              <<"x-a", {Absent, JStr("1")}>>,
              <<"vendor", {Absent, JStr("acme")}>> >>)}

KindTexts ==
    {Absent, JNull} \cup {JStr(k) : k \in {"message", "status-update", "artifact-update",
                                            "bogus", "Message", ""}}

MessageTexts ==
    {JObj(m) :
       m \in ObjFamily(
           << <<"role", {JStr("user"), JStr("agent"), JStr("system"), JStr("User")}>>,
              <<"parts", {JArr(<<>>),
                          JArr(<< JObj(<< <<"kind", JStr("text")>>,
                                          <<"text", JStr("hi")>> >>) >>)}>>,
              <<"messageId", {JStr("m1")}>>,
              <<"taskId", {Absent, JStr("t1")}>>,
              <<"kind", KindTexts>> >>)}

TaskStatusUpdateEventTexts ==
    {JObj(m) :
       m \in ObjFamily(
           << <<"taskId", {JStr("t1")}>>,
              <<"contextId", {JStr("c1")}>>,
              <<"kind", KindTexts>>,
              <<"status", {JObj(<< <<"state", JStr("working")>> >>)}>>,
              <<"final", {JBool(TRUE), JBool(FALSE)}>> >>)}

PartTexts ==
    {JObj(m) :
       m \in ObjFamily(
           << <<"kind",
                {Absent, JNum(Num(1))}
                    \cup {JStr(tok) : tok \in WireNames(Part) \cup {"bogus", "Text", ""}}>>,
              <<"text", {Absent, JStr("hi"), JNum(Num(1))}>>,
              <<"file",
                {Absent, JObj(<< <<"uri", JStr("http://x")>> >>),
                 JObj(<< <<"bytes", JStr("QQ==")>> >>)}>>,
              <<"data", {Absent, JObj(<< <<"k", JStr("v")>> >>)}>>,
              <<"metadata", {Absent, JNull, JObj(<<>>)}>> >>)}

FileWithTexts ==
    {JObj(m) :
       m \in ObjFamily(
           << <<"bytes", {Absent, JNull, JNum(Num(1)), JStr("QQ==")}>>,
              <<"uri", {Absent, JNull, JNum(Num(1)), JStr("http://x")}>>,
              <<"name", {Absent, JNull, JNum(Num(1)), JStr("a.txt")}>>,
              <<"mime_type", {Absent, JNum(Num(1)), JStr("text/plain")}>>,
              <<"mimeType", {Absent, JStr("text/plain")}>> >>)}

\* error codes past the 32-bit range that an i64 holds: 2^31, -2^31 - 1, 2^63 - 1
WideCodes ==
    {[neg |-> FALSE, d |-> <<2, 1, 4, 7, 4, 8, 3, 6, 4, 8>>],
     [neg |-> TRUE, d |-> <<2, 1, 4, 7, 4, 8, 3, 6, 4, 9>>],
     [neg |-> FALSE, d |-> IntMax(64)]}

\* the result types the bench gives JsonRpcResponse<T>
ResultTypes == {TNamed("TaskStatus"), TStr}

JsonRpcResponseTexts ==
    {JObj(m) :
       m \in ObjFamily(
           << <<"jsonrpc", {JStr("2.0")}>>,
              <<"id", {Absent, JNull, JNum(Num(7)), JStr("a"),
                       JNum([neg |-> FALSE, d |-> IntMax(64)])}>>,
              <<"result",
                {Absent, JNull, JStr("ok"),
                 JObj(<< <<"state", JStr("completed")>> >>),
                 JObj(<< <<"state", JStr("frobnicated")>> >>)}>>,
              <<"error",
                {Absent, JNull, JStr("boom"),
                 JObj(<< <<"code", JNum(Num(-32001))>>, <<"message", JStr("m")>> >>),
                 JObj(<< <<"code", JNum(Num(-32001))>>, <<"message", JStr("m")>>,
                         <<"data", JStr("d")>> >>),
                 JObj(<< <<"code", JNum(Num(-32001))>> >>)}
                    \cup {JObj(<< <<"code", JNum(n)>>, <<"message", JStr("m")>> >>) :
                            n \in WideCodes}>> >>)}

ListTasksResultTexts ==
    {JObj(m) :
       m \in ObjFamily(
           << <<"tasks", {JArr(<<>>)}>>,
              <<"totalSize", {Absent, JNum(Num(0))}>>,
              <<"pageSize", {JNum(Num(50))}>>,
              <<"nextPageToken", {Absent, JNull, JNum(Num(1))} \cup {JStr(v) : v \in PageTokens}>>,
              <<"next_page_token", {Absent, JStr("p2")}>> >>)}

DeserializeInputs ==
    {[ty |-> TNamed("TaskState"), j |-> j] : j \in TaskStateTexts}
        \cup {[ty |-> TNamed("TaskStatus"), j |-> j] : j \in TaskStatusTexts}
        \cup {[ty |-> TNamed("ListTasksParams"), j |-> j] : j \in ListTasksParamsTexts}
        \cup {[ty |-> TNamed("AgentInterface"), j |-> j] : j \in AgentInterfaceTexts}
        \cup {[ty |-> TNamed("AgentCard"), j |-> j] : j \in AgentCardTexts}
        \cup {[ty |-> TNamed("SecurityScheme"), j |-> j] :
                j \in SecuritySchemeTexts \cup SecuritySchemeExtensionTexts}
        \cup {[ty |-> TNamed("Part"), j |-> j] : j \in PartTexts}
        \cup {[ty |-> TNamed("FileWith"), j |-> j] : j \in FileWithTexts}
        \cup {[ty |-> TGeneric("JsonRpcResponse", T), j |-> j] :
                T \in ResultTypes, j \in JsonRpcResponseTexts}
        \cup {[ty |-> TNamed("ListTasksResult"), j |-> j] : j \in ListTasksResultTexts}
        \cup {[ty |-> TNamed("Message"), j |-> j] : j \in MessageTexts}
        \cup {[ty |-> TNamed("TaskStatusUpdateEvent"), j |-> j] :
                j \in TaskStatusUpdateEventTexts}

\* what callers insert into a metadata or extension map: entries with distinct
\* keys, and the same entries in another order
MapKeys == {"oauth", "api-key", "mtls", "x-a"}

EntryLists ==
    UNION {{e \in [1..n -> MapKeys \X {"v", "w"}] :
              \A i, j \in 1..n : i # j => e[i][1] # e[j][1]} : n \in 0..MaxInserts}

Reordered(entries) ==
    {e \in [DOMAIN entries -> {entries[i] : i \in DOMAIN entries}] :
       \A i \in DOMAIN entries : \E j \in DOMAIN entries : e[j] = entries[i]}

MapInputs == UNION {{<<e, f>> : f \in Reordered(e)} : e \in EntryLists}

\* the types the bench hands to Serialize
SerializeTypes ==
    {TNamed(n) :
       n \in {"TaskStatus", "Message", "Part", "FileWith", "TaskPushNotificationConfig",
              "PushNotificationConfig", "PushNotificationAuthenticationInfo",
              "SecurityScheme", "OAuthFlows", "OAuthFlow", "AgentInterface",
              "AgentSkill", "AgentCardSignature", "AgentCard", "AgentCapabilities",
              "AgentExtension", "JsonRpcRequest", "JsonRpcError", "JSONRPCError",
              "MessageSendParams", "MessageSendConfiguration", "TaskStatusUpdateEvent",
              "TaskQueryParams", "ListTasksParams", "ListTasksResult",
              "GetTaskPushNotificationConfigParams"}}
        \cup {TGeneric("JsonRpcResponse", T) : T \in ResultTypes}

SerializeInputs(ty) == {[ty |-> ty, x |-> x] : x \in Values(ty)}

(***************************************************************************)
(* The bench.                                                              *)
(***************************************************************************)
Init ==
    /\ pc = "input"
    /\ res = NoRes
    /\ \/ op = "error_code" /\ arg \in JsonRpcErrorKinds
       \/ op = "from_i64" /\ arg \in CodeInputs
       \/ op = "foo" /\ arg \in CodeInputs
       \/ op = "from_str" /\ arg \in TransportTokens
       \/ op = "deserialize" /\ arg \in DeserializeInputs
       \/ op = "insert" /\ arg \in MapInputs
       \/ op = "construct" /\ arg \in Constructors
       \/ op = "serialize" /\ \E ty \in SerializeTypes : arg \in SerializeInputs(ty)

Apply(name, out) ==
    /\ pc = "input"
    /\ op = name
    /\ res' = out
    /\ pc' = "done"
    /\ UNCHANGED <<op, arg>>

ErrorCode == Apply("error_code", Ok(error_code(arg)))

FromI64 == Apply("from_i64", Ok(From_i64(arg)))

Foo == Apply("foo", Ok(foo(arg)))

\* the caller turns the code it was given back into a kind
KindOfCode ==
    /\ pc = "done"
    /\ op = "error_code"
    /\ res' = Ok(From_i64(res.val))
    /\ pc' = "back"
    /\ UNCHANGED <<op, arg>>

FromStr == Apply("from_str", Ok(From_str(arg)))

\* serde_json::from_str::<T>
DeserializeText == Apply("deserialize", Deserialize(arg.ty, arg.j))

\* serde_json::to_string::<T>
SerializeValue == Apply("serialize", Ok(Serialize(arg.ty, arg.x)))

Construct ==
    Apply("construct",
          Ok(CASE arg = "Message::new" -> Message_new
               [] arg = "Message::default" -> Default(TNamed("Message"))
               [] arg = "TaskStatusUpdateEvent::new" -> TaskStatusUpdateEvent_new
               [] arg = "TaskStatusUpdateEvent::default" ->
                     Default(TNamed("TaskStatusUpdateEvent"))))

\* the caller writes the value it has just read
SerializeRead ==
    /\ pc = "done"
    /\ op = "deserialize"
    /\ res.ok
    /\ res' = Ok(Serialize(arg.ty, res.val))
    /\ pc' = "back"
    /\ UNCHANGED <<op, arg>>

\* two callers fill a map each and write it
InsertAll ==
    Apply("insert",
          Ok([a |-> Inserted(arg[1]),
              b |-> Inserted(arg[2]),
              wrote_a |-> Serialize(TMap(TStr), Inserted(arg[1])),
              wrote_b |-> Serialize(TMap(TStr), Inserted(arg[2]))]))

\* the caller reads back the text it has just written
DeserializeWritten ==
    /\ pc = "done"
    /\ op = "serialize"
    /\ res' = Deserialize(arg.ty, res.val)
    /\ pc' = "back"
    /\ UNCHANGED <<op, arg>>

Next ==
    \/ ErrorCode
    \/ FromI64
    \/ Foo
    \/ KindOfCode
    \/ FromStr
    \/ DeserializeText
    \/ SerializeValue
    \/ DeserializeWritten
    \/ InsertAll
    \/ SerializeRead
    \/ Construct

Spec == Init /\ [][Next]_vars

(***************************************************************************)
(* Properties of the error registry.                                       *)
(***************************************************************************)
\* C1: for each of the 13 kinds k, the sentinel included, the kind of the
\* code of k is k again.
C1_CodeBijection ==
    (pc = "back" /\ op = "error_code") => (res.ok /\ res.val = arg)

C1_Witness ==
    /\ pc = "back"
    /\ op = "error_code"
    /\ arg = "UnknownErrorEncountered"
    /\ res = Ok("UnknownErrorEncountered")

\* C2: From<i64> answers a kind for every code, and the sentinel
\* UnknownErrorEncountered for every code that no registered kind owns.
C2_KindOfTotal ==
    (pc = "done" /\ op \in {"from_i64", "foo"}) =>
        /\ res.ok
        /\ res.val \in JsonRpcErrorKinds
        /\ (arg \notin {error_code(k) :
                          k \in JsonRpcErrorKinds \ {"UnknownErrorEncountered"}})
              => res.val = "UnknownErrorEncountered"

C2_Witness ==
    /\ pc = "done"
    /\ op = "from_i64"
    /\ arg = -1
    /\ res = Ok("UnknownErrorEncountered")

\* C3: every kind has a code, the code is a negative integer, and no other
\* kind has the same code.
C3_CodeOfInjective ==
    (pc = "done" /\ op = "error_code") =>
        /\ res.ok
        /\ res.val \in Int
        /\ res.val < 0
        /\ \A k \in JsonRpcErrorKinds : k # arg => error_code(k) # res.val

C3_Witness ==
    /\ pc = "done"
    /\ op = "error_code"
    /\ arg = "InvalidAgentResponseError"
    /\ res = Ok(-32006)

(***************************************************************************)
(* Properties of the codecs.                                               *)
(***************************************************************************)
\* C4: decoding a TaskState from a string token that is not one of the nine
\* kebab-case tokens succeeds and yields Unknown, alone and as the state of
\* a TaskStatus or the status of a ListTasksParams.
C4_TaskStateLenient ==
    LET Nine == {"submitted", "working", "input-required", "completed", "canceled",
                 "failed", "rejected", "auth-required", "unknown"}
        strange(j) == j.t = "str" /\ j.s \notin Nine
        has(k) == arg.j.t = "obj" /\ Positions(arg.j.m, k) # {}
    IN  (pc = "done" /\ op = "deserialize") =>
            /\ (arg.ty = TNamed("TaskState") /\ strange(arg.j))
                  => (res.ok /\ res.val = "Unknown")
            /\ (arg.ty = TNamed("TaskStatus") /\ has("state")
                    /\ strange(Member(arg.j.m, "state")))
                  => (res.ok /\ res.val.state = "Unknown")
            /\ (arg.ty = TNamed("ListTasksParams") /\ has("status")
                    /\ strange(Member(arg.j.m, "status")))
                  => (res.ok /\ res.val.status = Some("Unknown"))

C6_SecuritySchemeTokens ==
    LET token(v) == CASE v = "ApiKey" -> "apiKey"
                      [] v = "Http" -> "http"
                      [] v = "MutualTLS" -> "mutualTLS"
                      [] v = "OAuth2" -> "oauth2"
                      [] v = "OpenIdConnect" -> "openIdConnect"
        Variants == {"ApiKey", "Http", "MutualTLS", "OAuth2", "OpenIdConnect"}
        required(v) == CASE v = "ApiKey" -> {"name", "in"}
                         [] v = "Http" -> {"scheme"}
                         [] v = "MutualTLS" -> {}
                         [] v = "OAuth2" -> {"flows"}
                         [] v = "OpenIdConnect" -> {"openIdConnectUrl"}
        m == arg.j.m
        type == Member(m, "type")
        \* every member is a string, but for flows under OAuth2 and a null description
        wellTyped(v) == \A i \in DOMAIN m :
                           \/ m[i][2].t = "str"
                           \/ m[i][1] = "flows" /\ v = "OAuth2"
                           \/ m[i][1] = "description" /\ m[i][2].t = "null"
    IN  /\ (pc = "done" /\ op = "serialize" /\ arg.ty = TNamed("SecurityScheme"))
              => /\ Positions(res.val.m, "type") # {}
                 /\ Member(res.val.m, "type") = JStr(token(VariantName(arg.x)))
        /\ (pc = "done" /\ op = "deserialize" /\ arg.ty = TNamed("SecurityScheme")
                /\ Positions(m, "type") # {} /\ type.t = "str")
              => \A v \in Variants :
                    (type.s = token(v) /\ required(v) \subseteq Keys(m) /\ wellTyped(v))
                        => (res.ok /\ VariantName(res.val) = v)

\* C7: decoding a Part whose `kind` is not text, file or data, or a
\* SecurityScheme whose `type` is none of its declared discriminators, is a
\* decode error, and so is decoding either without its tag field.
C7_UnknownDiscriminatorFails ==
    LET tagOf(k) == Member(arg.j.m, k)
        unknown(k, names) ==
            \/ Positions(arg.j.m, k) = {}
            \/ tagOf(k).t # "str"
            \/ tagOf(k).s \notin names
    IN  (pc = "done" /\ op = "deserialize") =>
            /\ (arg.ty = TNamed("Part") /\ unknown("kind", {"text", "file", "data"}))
                  => ~res.ok
            /\ (arg.ty = TNamed("SecurityScheme")
                    /\ unknown("type", WireNames(SecurityScheme)))
                  => ~res.ok

C7_Witness ==
    /\ pc = "done"
    /\ op = "deserialize"
    /\ arg.ty = TNamed("Part")
    /\ Positions(arg.j.m, "kind") # {}
    /\ Member(arg.j.m, "kind") = JStr("bogus")
    /\ Positions(arg.j.m, "text") # {}
    /\ Member(arg.j.m, "text") = JStr("hi")
    /\ ~res.ok

C10_Omission ==
    (pc = "done" /\ op = "serialize" /\ Def(arg.ty).kind = "struct") =>
        LET fields == Def(arg.ty).fields
        IN  \A i \in DOMAIN fields :
               (fields[i].ty.k = "opt") =>
                  ((Positions(res.val.m, fields[i].wire) # {})
                      <=> arg.x[fields[i].rust].some)

\* C11: an object that lacks the key of an optional field of a record decodes
\* as the same object with null under that key does, and where that one
\* decodes, it decodes too, with the field absent; so for an AgentCard
\* without preferredTransport.
C11_MissingOptionalKey ==
    (pc = "done" /\ op = "deserialize" /\ arg.j.t = "obj"
        /\ Def(arg.ty).kind = "struct") =>
        LET fields == Def(arg.ty).fields
        IN  \A i \in DOMAIN fields :
               (fields[i].ty.k = "opt" /\ Positions(arg.j.m, fields[i].wire) = {}) =>
                  LET withNull == Deserialize(arg.ty,
                                      JObj(arg.j.m \o << <<fields[i].wire, JNull>> >>))
                  IN  /\ res.ok <=> withNull.ok
                      /\ res.ok => /\ res.val = withNull.val
                                   /\ res.val[fields[i].rust] = None

\* C12: for every value of a record type, decoding what it encodes to gives
\* the value back.
C12_RoundTrip ==
    (pc = "back" /\ op = "serialize") => (res.ok /\ res.val = arg.x)

\* C13: every encoded ListTasksResult has the key nextPageToken with a
\* string under it, the empty string when there is no further page; and an
\* object without nextPageToken does not decode as a ListTasksResult.
C13_PaginationSentinel ==
    /\ (pc = "done" /\ op = "serialize" /\ arg.ty = TNamed("ListTasksResult"))
          => /\ Positions(res.val.m, "nextPageToken") # {}
             /\ Member(res.val.m, "nextPageToken").t = "str"
             /\ Member(res.val.m, "nextPageToken").s = arg.x.next_page_token
    /\ (pc = "done" /\ op = "deserialize" /\ arg.ty = TNamed("ListTasksResult")
            /\ Positions(arg.j.m, "nextPageToken") = {})
          => ~res.ok

C13_Witness ==
    /\ pc = "done"
    /\ op = "serialize"
    /\ arg.ty = TNamed("ListTasksResult")
    /\ arg.x.next_page_token = ""
    /\ Positions(res.val.m, "nextPageToken") # {}
    /\ Member(res.val.m, "nextPageToken") = JStr("")

\* C14: an encoded JsonRpcResponse with an id has exactly the keys jsonrpc,
\* id and result when its payload is Success, and exactly jsonrpc, id and
\* error when it is Error; no encoded response has both result and error;
\* and a TaskState Completed inside the result is written "completed".
C14_EnvelopeShape ==
    (pc = "done" /\ op = "serialize" /\ arg.ty.name = "JsonRpcResponse") =>
        LET m == res.val.m
            variant == VariantName(arg.x.payload)
            exactly(keys) == Keys(m) = keys /\ Len(m) = Cardinality(keys)
        IN  /\ (arg.x.id.some /\ variant = "Success")
                  => exactly({"jsonrpc", "id", "result"})
            /\ (arg.x.id.some /\ variant = "Error")
                  => exactly({"jsonrpc", "id", "error"})
            /\ ~({"result", "error"} \subseteq Keys(m))
            /\ (arg.ty.T = TNamed("TaskStatus") /\ variant = "Success")
                  => /\ Positions(m, "result") # {}
                     /\ (Held(arg.x.payload).result.state = "Completed")
                           => /\ Member(m, "result").t = "obj"
                              /\ Positions(Member(m, "result").m, "state") # {}
                              /\ Member(Member(m, "result").m, "state") = JStr("completed")

C14_Witness ==
    /\ pc = "done"
    /\ op = "serialize"
    /\ arg.ty = TGeneric("JsonRpcResponse", TNamed("TaskStatus"))
    /\ arg.x.id.some
    /\ VariantName(arg.x.id.v) = "Number"
    /\ VariantName(arg.x.payload) = "Success"
    /\ Held(arg.x.payload).result.state = "Completed"
    /\ Keys(res.val.m) = {"jsonrpc", "id", "result"}
    /\ Member(Member(res.val.m, "result").m, "state") = JStr("completed")

\* C15: no key that a record writes is in snake_case: a field of several
\* words is written in camelCase, and read under its camelCase name, as
\* mimeType of FileBase is.
C15_CamelCaseKeys ==
    /\ (pc = "done" /\ op = "serialize") =>
          \A i \in DOMAIN res.val.m :
             \A c \in 1..Len(res.val.m[i][1]) : Ch(res.val.m[i][1], c) # "_"
    /\ (pc = "done" /\ op = "deserialize" /\ arg.ty = TNamed("FileWith") /\ res.ok
            /\ Positions(arg.j.m, "mimeType") # {}
            /\ Positions(arg.j.m, "mime_type") = {})
          => Held(res.val).base.mime_type = Some(Member(arg.j.m, "mimeType").s)

\* C16: two maps filled with the same entries in different orders are equal,
\* and both are written with their keys in ascending order.
C16_MapOrder ==
    (pc = "done" /\ op = "insert") =>
        LET m == res.val.wrote_a.m
        IN  /\ res.val.a = res.val.b
            /\ res.val.wrote_a = res.val.wrote_b
            /\ Keys(m) = {arg[1][i][1] : i \in DOMAIN arg[1]}
            /\ \A i \in DOMAIN m : m[i][2] = JStr(arg[1][CHOOSE j \in DOMAIN arg[1] :
                                                            arg[1][j][1] = m[i][1]][2])
            /\ \A i, j \in DOMAIN m : i < j => StrLess(m[i][1], m[j][1])

C16_Witness ==
    /\ pc = "done"
    /\ op = "insert"
    /\ arg = << << <<"oauth", "v">>, <<"api-key", "w">>, <<"mtls", "v">> >>,
                << <<"mtls", "v">>, <<"oauth", "v">>, <<"api-key", "w">> >> >>
    /\ res.val.a = res.val.b
    /\ res.val.wrote_b = JObj(<< <<"api-key", JStr("w")>>, <<"mtls", JStr("v")>>,
                                 <<"oauth", JStr("v")>> >>)

\* C17: a key that only other variants of SecurityScheme or Part declare as a
\* field is not held by a decoded value of this variant, in its extension map
\* or elsewhere, and is not among the keys this variant is written with.
C17_NoFieldLeak ==
    LET names(fields) ==
            UNION {IF fields[i].flat
                   THEN (IF fields[i].ty.k = "named"
                         THEN {Def(fields[i].ty).fields[n].wire :
                                 n \in DOMAIN Def(fields[i].ty).fields}
                         ELSE {})
                   ELSE {fields[i].wire} : i \in DOMAIN fields}
        declared(v) == IF v.shape = "struct" THEN names(v.fields)
                       ELSE names(Def(v.ty).fields)
        foreign(d, name) ==
            UNION {declared(d.variants[i]) : i \in DOMAIN d.variants}
                \ declared(VariantOf(d, name))
        union == arg.ty \in {TNamed("SecurityScheme"), TNamed("Part")}
    IN  /\ (pc = "done" /\ op = "deserialize" /\ arg.ty = TNamed("SecurityScheme")
                /\ res.ok)
              => foreign(SecurityScheme, VariantName(res.val))
                    \cap DOMAIN Held(res.val).extensions = {}
        /\ (pc = "back" /\ op = "deserialize" /\ union)
              => foreign(Def(arg.ty), VariantName(Deserialize(arg.ty, arg.j).val))
                    \cap Keys(res.val.m) = {}
        /\ (pc = "done" /\ op = "serialize" /\ union)
              => foreign(Def(arg.ty), VariantName(arg.x)) \cap Keys(res.val.m) = {}

\* C18: the keys of a SecurityScheme object that its variant does not declare
\* come out of a decode followed by an encode with their values, none
\* dropped, in the order they had in the input.
C18_ExtensionKeysSurvive ==
    (pc = "back" /\ op = "deserialize" /\ arg.ty = TNamed("SecurityScheme")) =>
        LET v == VariantOf(SecurityScheme, VariantName(Deserialize(arg.ty, arg.j).val))
            declared == {v.fields[i].wire : i \in {i \in DOMAIN v.fields : ~v.fields[i].flat}}
            unknown(e) == e[1] \notin declared \cup {"type"}
        IN  SelectSeq(res.val.m, unknown) = SelectSeq(arg.j.m, unknown)

\* C19: every key in the extension map of a decoded SecurityScheme begins
\* with "x-".
C19_ExtensionPrefix ==
    (pc = "done" /\ op = "deserialize" /\ arg.ty = TNamed("SecurityScheme") /\ res.ok) =>
        \A k \in DOMAIN Held(res.val).extensions :
           Len(k) >= 2 /\ SubSeq(k, 1, 2) = "x-"

\* C20: a Message made by Message::new, by Default or by a decode has kind
\* "message", and a TaskStatusUpdateEvent made in any of these ways has kind
\* "status-update"; an object with another kind does not decode.
C20_FixedKind ==
    /\ (pc = "done" /\ op = "construct")
          => res.val.kind = (IF arg \in {"Message::new", "Message::default"}
                             THEN "message" ELSE "status-update")
    /\ (pc = "done" /\ op = "deserialize" /\ arg.ty = TNamed("Message") /\ res.ok)
          => res.val.kind = "message"
    /\ (pc = "done" /\ op = "deserialize" /\ arg.ty = TNamed("TaskStatusUpdateEvent")
            /\ res.ok)
          => res.val.kind = "status-update"

\* C21: a JsonRpcResponse object without `result` whose `error` member is
\* an object with a string `message` and a `code` in the i64 range decodes
\* to an Error payload holding that code, and encodes back with the same
\* number under `code`.
C21_CodeWidth ==
    LET m == arg.j.m
        e == Member(m, "error")
        code == Member(e.m, "code")
        i64_code ==
            /\ Positions(m, "result") = {}
            /\ Positions(m, "error") # {}
            /\ e.t = "obj"
            /\ Keys(e.m) = {"code", "message"}
            /\ Member(e.m, "message").t = "str"
            /\ code.t = "num"
            /\ IntFits(64, code.n)
    IN  (op = "deserialize" /\ arg.ty.name = "JsonRpcResponse" /\ i64_code) =>
            /\ pc = "done"
                  => /\ res.ok
                     /\ VariantName(res.val.payload) = "Error"
                     /\ Held(res.val.payload).error.code = code.n
            /\ pc = "back" => Member(Member(res.val.m, "error").m, "code") = code

\* C22: every encoded JsonRpcResponse has an `id` key, whatever its id field
\* holds: the id itself, or null when the field holds none; this is so for a
\* response encoded from a value and for one decoded and encoded again.
C22_IdRequired ==
    LET written(id, m) ==
            /\ Positions(m, "id") # {}
            /\ ~id.some => Member(m, "id") = JNull
    IN  /\ (pc = "done" /\ op = "serialize" /\ arg.ty.name = "JsonRpcResponse")
              => written(arg.x.id, res.val.m)
        /\ (pc = "back" /\ op = "deserialize" /\ arg.ty.name = "JsonRpcResponse")
              => written(Deserialize(arg.ty, arg.j).val.id, res.val.m)

\* C23: a Message object whose other members are well formed decodes
\* whatever its `role` token: "user" gives User, "agent" gives Agent, and
\* any other token gives User, the default.
C23_RoleLenient ==
    LET m == arg.j.m
        role == Member(m, "role")
        rest == JObj(SelectSeq(m, LAMBDA e : e[1] # "role")
                        \o << <<"role", JStr("user")>> >>)
    IN  (pc = "done" /\ op = "deserialize" /\ arg.ty = TNamed("Message")
            /\ role.t = "str" /\ Deserialize(arg.ty, rest).ok) =>
            /\ res.ok
            /\ res.val.role = (IF role.s = "agent" THEN "Agent" ELSE "User")

\* C24: a FileWith object that has a `bytes` or a `uri` key decodes to some
\* variant, and so does a JsonRpcResponse object that has a `result` or an
\* `error` key; an object with neither of its two keys fails to decode.
C24_FailsOnlyWithoutKeys ==
    LET has(k) == Positions(arg.j.m, k) # {}
        any(a, b) == (has(a) \/ has(b)) <=> res.ok
    IN  /\ (pc = "done" /\ op = "deserialize" /\ arg.ty = TNamed("FileWith"))
              => any("bytes", "uri")
        /\ (pc = "done" /\ op = "deserialize" /\ arg.ty.name = "JsonRpcResponse")
              => any("result", "error")

\* C25: the encoded object of a SecurityScheme value has no key twice: no
\* key of the extension map is written beside the `type` tag or beside a
\* declared field of the variant under the same name.
C25_NoDuplicateKeys ==
    (pc = "done" /\ op = "serialize" /\ arg.ty = TNamed("SecurityScheme")) =>
        \A i, j \in DOMAIN res.val.m : res.val.m[i][1] = res.val.m[j][1] => i = j

====
